---- MODULE Spec2Model ----
(***************************************************************************)
(* Verification model of the profile-alignment core of smpfunc.py          *)
(* (random_scaling, scale_profile, extract_samples, calc_skill,            *)
(* eval_scaling).                                                           *)
(*                                                                         *)
(* Numbers.  Stretch fractions are integers counted in 1/FracDen (with     *)
(* FracDen = 20: 0.15 is 3, 0.75 is 15, 0.1 is 2, 0.7 is 14).  Depths are  *)
(* integers (mm); a depth that went through a stretch is kept multiplied   *)
(* by FracDen so that l_resample * (1 + s) stays an integer.               *)
(*                                                                         *)
(* Random source.  numpy's global generator is the variable rng: the       *)
(* stream of values it will hand out next, kept as a cyclic sequence of    *)
(* levels 0..ULevels-1 (level k is the uniform [0,1) sample k/ULevels).    *)
(* Taking a value rotates the stream.  The generator is never seeded by    *)
(* smpfunc.py; the caller may seed it with RANDOM_SEED.                    *)
(***************************************************************************)
EXTENDS Integers, Sequences, FiniteSets, TLC

VARIABLES
    rng,            \* numpy global random state (stream of future levels)
    seed,           \* <<s>> once np.random.seed(s) was called, <<>> before
    rs,             \* activation record of a direct random_scaling call
    smp_dat,        \* caller-owned profile table (eval_scaling argument)
    ref_dat,        \* caller-owned reference table (eval_scaling argument)
    es,             \* activation record of eval_scaling
    first,          \* the first finished eval_scaling run made right after seeding
    sp,             \* activation record of a direct scale_profile call
    rk,             \* a table of trial scores on its way through the ranking
    ext,            \* activation record of a direct extract_samples call
    skl,            \* activation record of a direct calc_skill call
    cal             \* activation record of a direct calibration call

vars == <<rng, seed, rs, smp_dat, ref_dat, es, first, sp, rk, ext, skl, cal>>

----------------------------------------------------------------------------
(* Bounds of the model *)

FracDen == 20        \* stretch fractions are counted in 1/FracDen
ULevels == 4         \* resolution of one uniform sample
StreamLen == 4       \* period of the modelled random stream
MaxLayers == 2       \* largest layer_num of a direct random_scaling call

RANDOM_SEED == 2021

----------------------------------------------------------------------------
(* Generic helpers *)

Abs(x) == IF x < 0 THEN -x ELSE x

RECURSIVE SeqSum(_)
SeqSum(s) == IF s = <<>> THEN 0 ELSE Head(s) + SeqSum(Tail(s))

Range(s) == {s[i] : i \in 1..Len(s)}

\* the list whose elements are those of f, computed one after the other
\* (a Python list or numpy array, where f is written as a function on 1..n)
AsList(f) == SubSeq(f, 1, Len(f))

----------------------------------------------------------------------------
(* numpy.random: the global generator *)

Streams == [1..StreamLen -> 0..(ULevels - 1)]

\* np.random.seed(s): the stream is a fixed function of the seed (a small
\* linear congruential sequence started from the seed)
RECURSIVE Lcg(_, _)
Lcg(x, n) == IF n = 0 THEN <<>> ELSE <<x>> \o Lcg((5 * x + 3) % 16, n - 1)

SeedStream(s) ==
    LET xs == Lcg(s % 16, StreamLen)
    IN  [i \in 1..StreamLen |-> (xs[i] * ULevels) \div 16]

\* one raw sample: the level handed out and the generator afterwards
RngLevel(g) == g[1]
RngNext(g) == Tail(g) \o <<g[1]>>

\* np.random.uniform(low, high) = low + (high - low) * u, u in [0, 1)
Uniform(low, high, k) == low + ((high - low) * k) \div ULevels

\* np.random.choice(n, n, replace=False): a shuffle of 0..n-1 (Fisher-Yates,
\* one raw sample per swap).  Returns the permutation and the generator.
RECURSIVE Shuffle(_, _, _)
Shuffle(perm, i, g) ==
    IF i <= 1 THEN [perm |-> perm, g |-> g]
    ELSE LET j == 1 + (RngLevel(g) * i) \div ULevels
             swapped == [perm EXCEPT ![i] = perm[j], ![j] = perm[i]]
         IN  Shuffle(swapped, i - 1, RngNext(g))

Choice(n, g) == Shuffle([i \in 1..n |-> i - 1], n, g)

\* n successive np.random.uniform(-m, m) appended to layer_stretch
RECURSIVE DrawLayers(_, _, _, _)
DrawLayers(n, m, acc, g) ==
    IF n = 0 THEN [layer_stretch |-> acc, g |-> g]
    ELSE DrawLayers(n - 1, m, Append(acc, Uniform(-m, m, RngLevel(g))), RngNext(g))

\* np.argsort of a permutation of 0..n-1: position (1-based) of each value
ArgSort(order) ==
    [i \in 1..Len(order) |-> CHOOSE j \in 1..Len(order) : order[j] = i - 1]

\* layer_stretch[layer_order_sort]
TakeIdx(a, idx) == [i \in 1..Len(idx) |-> a[idx[i]]]

----------------------------------------------------------------------------
(* random_scaling *)

\* (mutant) the total is compared without its magnitude
WithinTotalBudget_NoAbs(layer_stretch, max_change) ==
    SeqSum(layer_stretch) <= max_change

\* the test that ends the while loop (smpfunc.py line 134)
WithinTotalBudget(layer_stretch, max_change) ==
    Abs(SeqSum(layer_stretch)) <= max_change

\* one pass of the while-True body: draw layer_order, draw layer_stretch,
\* test the total budget
RandomScalingPass(g, layer_num, max_change, max_change_layer) ==
    LET c == Choice(layer_num, g)
        d == DrawLayers(layer_num, max_change_layer, <<>>, c.g)
    IN  [layer_order |-> c.perm,
         layer_stretch |-> d.layer_stretch,
         g |-> d.g,
         accept |-> WithinTotalBudget(d.layer_stretch, max_change)]

\* lines 136-137: the value returned once the loop has ended
RandomScalingResult(layer_stretch, layer_order) ==
    TakeIdx(layer_stretch, ArgSort(layer_order))

LayerNums == 0..MaxLayers
MaxChanges == {-1, 3, 12}
MaxChangeLayers == {14, 15}

RsIdle == [pc |-> "idle"]

RS_Call ==
    /\ rs.pc = "idle"
    /\ \E n \in LayerNums, mc \in MaxChanges, mcl \in MaxChangeLayers :
          rs' = [pc |-> "loop", layer_num |-> n, max_change |-> mc,
                 max_change_layer |-> mcl, rejected |-> FALSE]
    /\ UNCHANGED <<rng, seed, smp_dat, ref_dat, es, first, sp, rk, ext, skl, cal>>

\* lines 130-133: a fresh candidate is drawn from the global generator
RS_Draw ==
    /\ rs.pc = "loop"
    /\ LET p == RandomScalingPass(rng, rs.layer_num, rs.max_change, rs.max_change_layer)
       IN  /\ rng' = p.g
           /\ rs' = [pc |-> "test", layer_num |-> rs.layer_num,
                     max_change |-> rs.max_change,
                     max_change_layer |-> rs.max_change_layer,
                     rejected |-> rs.rejected,
                     layer_order |-> p.layer_order,
                     layer_stretch |-> p.layer_stretch]
    /\ UNCHANGED <<seed, smp_dat, ref_dat, es, first, sp, rk, ext, skl, cal>>

\* line 134 false: the candidate is dropped, back to the top of the loop
RS_Redraw ==
    /\ rs.pc = "test"
    /\ ~WithinTotalBudget(rs.layer_stretch, rs.max_change)
    /\ rs' = [pc |-> "loop", layer_num |-> rs.layer_num,
              max_change |-> rs.max_change,
              max_change_layer |-> rs.max_change_layer, rejected |-> TRUE]
    /\ UNCHANGED <<rng, seed, smp_dat, ref_dat, es, first, sp, rk, ext, skl, cal>>

\* line 134 true: break, un-permute (lines 136-137), return
RS_Accept ==
    /\ rs.pc = "test"
    /\ WithinTotalBudget(rs.layer_stretch, rs.max_change)
    /\ rs' = [pc |-> "done", layer_num |-> rs.layer_num,
              max_change |-> rs.max_change,
              max_change_layer |-> rs.max_change_layer,
              rejected |-> rs.rejected,
              layer_order |-> rs.layer_order,
              result |-> RandomScalingResult(rs.layer_stretch, rs.layer_order)]
    /\ UNCHANGED <<rng, seed, smp_dat, ref_dat, es, first, sp, rk, ext, skl, cal>>

RS_Return ==
    /\ rs.pc = "done"
    /\ rs' = RsIdle
    /\ UNCHANGED <<rng, seed, smp_dat, ref_dat, es, first, sp, rk, ext, skl, cal>>

NoTable == [cols |-> <<>>, rows |-> <<>>]

InitRS ==
    /\ rng \in Streams
    /\ seed = <<>>
    /\ rs = RsIdle
    /\ smp_dat = NoTable
    /\ ref_dat = NoTable
    /\ es = [pc |-> "idle"]
    /\ first = [set |-> FALSE]
    /\ sp = [pc |-> "idle"]
    /\ rk = [pc |-> "idle"]
    /\ ext = [pc |-> "idle"]
    /\ skl = [pc |-> "idle"]
    /\ cal = [pc |-> "idle"]

NextRS == RS_Call \/ RS_Draw \/ RS_Redraw \/ RS_Accept \/ RS_Return

SpecRS == InitRS /\ [][NextRS]_vars

\* the interpreter keeps executing the loop: a pass that can run does run
LiveRS == InitRS /\ [][NextRS]_vars /\ WF_vars(NextRS)

----------------------------------------------------------------------------
(* scale_profile *)

Min(a, b) == IF a <= b THEN a ELSE b
Max(a, b) == IF a >= b THEN a ELSE b

\* a[i:j] of Python/numpy for 0-based i, j >= 0 (clipped to the array)
Slice(a, i, j) == SubSeq(a, i + 1, Min(j, Len(a)))

\* (np.abs(a - x)).argmin(): 0-based index of the first element nearest to x
RECURSIVE ArgMinFrom(_, _, _, _)
ArgMinFrom(a, x, i, best) ==
    IF i > Len(a) THEN best
    ELSE ArgMinFrom(a, x, i + 1, IF Abs(a[i] - x) < Abs(a[best] - x) THEN i ELSE best)

ArgMinAbs(a, x) == ArgMinFrom(a, x, 2, 1) - 1

\* np.arange(0, stop, step) for step > 0: 0, step, 2*step, ... below stop
ARange(stop, step) ==
    LET cnt == IF stop <= 0 THEN 0 ELSE (stop + step - 1) \div step
    IN  AsList([k \in 1..cnt |-> (k - 1) * step])

\* Python round() of the quotient a/b (b > 0, a >= 0): ties go to the even integer
RoundHalfEven(a, b) ==
    LET q == a \div b
        r == a % b
    IN  IF 2 * r < b THEN q
        ELSE IF 2 * r > b THEN q + 1
        ELSE IF q % 2 = 0 THEN q ELSE q + 1

\* scipy.ndimage zoom(input, zoom): the output has round(len(input) * zoom)
\* samples; output sample j sits at input coordinate j*(n-1)/(m-1), so first
\* and last samples are kept and a zoom of 1 returns the input.  Between
\* two input samples the value is interpolated (linearly here, on the
\* integer grid of the model).
ZoomLen(n, znum, zden) == RoundHalfEven(n * znum, zden)

Zoom(input, znum, zden) ==
    LET n == Len(input)
        m == ZoomLen(n, znum, zden)
    IN  AsList([j \in 1..m |->
            IF m = 1 THEN input[1]
            ELSE LET pos == (j - 1) * (n - 1)
                     lo  == pos \div (m - 1)
                     fr  == pos % (m - 1)
                 IN  IF fr = 0 THEN input[lo + 1]
                     ELSE RoundHalfEven(input[lo + 1] * ((m - 1) - fr)
                                        + input[lo + 2] * fr, m - 1)])

\* layer_thickness = l_resample + scaling_guess * l_resample, times FracDen
LayerThickness(scaling_guess, l_resample) ==
    AsList([i \in 1..Len(scaling_guess) |-> l_resample * (FracDen + scaling_guess[i])])

\* (mutant) the stretched segment is cut at l_end_idx instead of l_end_idx + 1
ScaledDist_Exclusive(depth_stretch, l_start_idx, l_end_idx) ==
    Slice(depth_stretch, l_start_idx, l_end_idx)

\* line 167: depth_stretch[l_start_idx:l_end_idx+1]
ScaledDist(depth_stretch, l_start_idx, l_end_idx) ==
    Slice(depth_stretch, l_start_idx, l_end_idx + 1)

\* (mutant) the start of a layer is looked up below the end of the last one
LStart_Back(l_last, h) == l_last - h

\* line 162: l_start = l_last + h_resample
LStart(l_last, h) == l_last + h

\* (mutant) the zoom factor is truncated to a whole number
ScalingZ_Int(scaled_len, orig_len) ==
    [num |-> scaled_len \div orig_len, den |-> 1]

\* line 168: scaling_z = len(scaled_dist)/len(orig_dist)
ScalingZ(scaled_len, orig_len) == [num |-> scaled_len, den |-> orig_len]

\* (mutant) a window of two points is warped as well
Kept_FromTwo(orig_value) == Len(orig_value) >= 2

\* line 166: if len(orig_value) > 2
Kept(orig_value) == Len(orig_value) > 2

\* the body of the for loop (lines 152-171) for the 0-based layer l_idx with
\* the l_last left by the layer before.  Depths of the stretched axis
\* (depth_stretch, l_end, l_start, l_last, h) are times FracDen.
ScaleLayer(l_idx, l_last, layer_thickness, depth_stretch, depth_array, value_array, l_resample, h) ==
    LET ol_start == l_resample * l_idx
        old_end == ol_start + l_resample
        ol_start_idx == ArgMinAbs(depth_array, ol_start)
        ol_end_idx == ArgMinAbs(depth_array, old_end)
        orig_dist == Slice(depth_array, ol_start_idx, ol_end_idx)
        orig_value == Slice(value_array, ol_start_idx, ol_end_idx)
        cum == SeqSum(SubSeq(layer_thickness, 1, l_idx + 1))
        l_end == cum - (cum % h)
        l_end_idx == ArgMinAbs(depth_stretch, l_end)
        l_start == LStart(l_last, h)
        l_start_idx == ArgMinAbs(depth_stretch, l_start)
        kept == Kept(orig_value)
        scaled_dist == ScaledDist(depth_stretch, l_start_idx, l_end_idx)
        scaling_z == ScalingZ(Len(scaled_dist), Len(orig_dist))
        scaled_value == Zoom(orig_value, scaling_z.num, scaling_z.den)
    IN  [l_last |-> l_end,
         l_start |-> l_start,
         l_start_idx |-> l_start_idx,
         l_end_idx |-> l_end_idx,
         kept |-> kept,
         orig_dist |-> orig_dist,
         orig_value |-> orig_value,
         scaled_dist |-> IF kept THEN scaled_dist ELSE <<>>,
         scaled_value |-> IF kept THEN scaled_value ELSE <<>>]

\* the for loop: layers l_idx .. last, appending to result_dist/result_value;
\* layers collects what each pass did
RECURSIVE ScaleLoop(_, _, _, _, _, _, _, _, _)
ScaleLoop(l_idx, l_last, acc, layer_thickness, depth_stretch, depth_array, value_array, l_resample, h) ==
    IF l_idx >= Len(layer_thickness) THEN acc
    ELSE LET y == ScaleLayer(l_idx, l_last, layer_thickness, depth_stretch,
                             depth_array, value_array, l_resample, h)
         IN  ScaleLoop(l_idx + 1, y.l_last,
                       [result_dist |-> acc.result_dist \o y.scaled_dist,
                        result_value |-> acc.result_value \o y.scaled_value,
                        layers |-> Append(acc.layers, y)],
                       layer_thickness, depth_stretch, depth_array,
                       value_array, l_resample, h)

NoStep == 0     \* h_resample = None

\* scale_profile(scaling_guess, depth_array, value_array, l_resample, h_resample)
\* result_dist is times FracDen.  Needs at least two depths (np.diff(..)[0]).
ScaleProfile(scaling_guess, depth_array, value_array, l_resample, h_resample) ==
    LET delta_h == depth_array[2] - depth_array[1]
        h == (IF h_resample = NoStep THEN delta_h ELSE h_resample) * FracDen
        layer_thickness == LayerThickness(scaling_guess, l_resample)
        new_total_thickness == SeqSum(layer_thickness)
        depth_stretch == ARange(new_total_thickness, h)
    IN  ScaleLoop(0, -h, [result_dist |-> <<>>, result_value |-> <<>>, layers |-> <<>>],
                  layer_thickness, depth_stretch, depth_array, value_array,
                  l_resample, h)

----------------------------------------------------------------------------
(* scale_profile called on its own: inputs drawn at the start, one call *)

MaxSPLayers == 3     \* longest scaling_guess of a direct scale_profile call
MaxPoints == 9       \* longest depth_array of a direct scale_profile call

StretchGrid == {-15, -8, 0, 7, 15}
SP_MaxStretch == 3           \* max_stretch = 0.15 (eval_scaling default)
SP_MaxLayerStretch == 15     \* max_layer_stretch = 0.75 (eval_scaling default)

\* the scaling vectors within both stretch budgets
ScalingGuesses ==
    {v \in UNION {[1..n -> StretchGrid] : n \in 0..MaxSPLayers} :
        /\ \A i \in 1..Len(v) : Abs(v[i]) <= SP_MaxLayerStretch
        /\ Abs(SeqSum(v)) <= SP_MaxStretch}

\* a regularly spaced ascending depth array and a value array beside it
DepthArray(d0, delta_h, n) == [i \in 1..n |-> d0 + (i - 1) * delta_h]
ValueArray(n) == [i \in 1..n |-> 100 + ((i * i * 7) % 40)]

SpIdle == [pc |-> "idle"]

InitSP ==
    /\ rng = SeedStream(RANDOM_SEED)
    /\ seed = <<>>
    /\ rs = RsIdle
    /\ smp_dat = NoTable
    /\ ref_dat = NoTable
    /\ es = [pc |-> "idle"]
    /\ first = [set |-> FALSE]
    /\ rk = [pc |-> "idle"]
    /\ ext = [pc |-> "idle"]
    /\ skl = [pc |-> "idle"]
    /\ cal = [pc |-> "idle"]
    /\ \E g \in ScalingGuesses, d0 \in {0, 3}, delta_h \in {5, 10},
          n \in 2..MaxPoints, l \in {20, 25, 30}, hr \in {NoStep, 10} :
          sp = [pc |-> "call", scaling_guess |-> g,
                depth_array |-> DepthArray(d0, delta_h, n),
                value_array |-> ValueArray(n),
                l_resample |-> l, h_resample |-> hr]

SP_Run ==
    /\ sp.pc = "call"
    /\ LET y == ScaleProfile(sp.scaling_guess, sp.depth_array, sp.value_array,
                             sp.l_resample, sp.h_resample)
       IN  sp' = [pc |-> "done", scaling_guess |-> sp.scaling_guess,
                  depth_array |-> sp.depth_array,
                  value_array |-> sp.value_array,
                  l_resample |-> sp.l_resample, h_resample |-> sp.h_resample,
                  result_dist |-> y.result_dist,
                  result_value |-> y.result_value,
                  layers |-> y.layers]
    /\ UNCHANGED <<rng, seed, rs, smp_dat, ref_dat, es, first, rk, ext, skl, cal>>

NextSP == SP_Run

SpecSP == InitSP /\ [][NextSP]_vars

----------------------------------------------------------------------------
(* Numbers that are not whole: exact fractions, NaN *)

RECURSIVE Gcd(_, _)
Gcd(a, b) == IF b = 0 THEN a ELSE Gcd(b, a % b)

NaN == [nan |-> TRUE, num |-> 0, den |-> 1]

\* the fraction a/b (b > 0) in lowest terms
Frac(a, b) ==
    LET g == Gcd(Abs(a), b)
    IN  [nan |-> FALSE, num |-> a \div g, den |-> b \div g]

\* a/b < c/d for b, d > 0, without forming the cross products
RECURSIVE FracLess(_, _, _, _)
FracLess(a, b, c, d) ==
    LET qa == a \div b
        qc == c \div d
        ra == a % b
        rc == c % d
    IN  IF qa # qc THEN qa < qc
        ELSE IF rc = 0 THEN FALSE
        ELSE IF ra = 0 THEN TRUE
        ELSE FracLess(d, rc, b, ra)

\* x < y on numbers that are not NaN
Less(x, y) == FracLess(x.num, x.den, y.num, y.den)

----------------------------------------------------------------------------
(* Tables (pandas DataFrame): column names in order, rows of cells *)

\* positions (1-based) of the columns called name
ColsNamed(t, name) == {i \in 1..Len(t.cols) : t.cols[i] = name}

\* c in df
HasCol(t, name) == ColsNamed(t, name) # {}

\* df[name].values for a name carried by one column
Col(t, name) ==
    LET c == CHOOSE i \in ColsNamed(t, name) : TRUE
    IN  AsList([r \in 1..Len(t.rows) |-> t.rows[r][c]])

\* df.rename(columns={old: new}, inplace=True): every column called old is
\* renamed, a table without such a column is left as it is
Rename(t, old, new) ==
    [cols |-> [i \in 1..Len(t.cols) |-> IF t.cols[i] = old THEN new ELSE t.cols[i]],
     rows |-> t.rows]

RECURSIVE SeqMax(_)
SeqMax(s) == IF Len(s) = 1 THEN s[1] ELSE Max(s[1], SeqMax(Tail(s)))

\* (mutant) the quotient is rounded down
CeilDiv_Floor(a, b) == a \div b

\* np.ceil(a / b) for a >= 0, b > 0
CeilDiv(a, b) == (a + b - 1) \div b

----------------------------------------------------------------------------
(* The caller's data: one profile, a handful of reference tables *)

\* profile table: rel_height every 10 mm, density and ssa beside it
SmpRows ==
    << <<0, 2, 8>>, <<10, 2, 8>>, <<20, 3, 6>>, <<30, 5, 5>>,
       <<40, 4, 3>>, <<50, 6, 3>>, <<60, 7, 1>> >>

SmpAllCols == <<"rel_height", "density", "ssa">>

\* the table made of the listed columns of SmpRows, in the listed order
SmpTable(names) ==
    LET pos(nm) == CHOOSE i \in 1..Len(SmpAllCols) : SmpAllCols[i] = nm
    IN  [cols |-> names,
         rows |-> [r \in 1..Len(SmpRows) |->
                      [c \in 1..Len(names) |-> SmpRows[r][pos(names[c])]]]]

\* the upper part of a profile: its first ShortRows rows
ShortRows == 4

ShortProfile(t) == [cols |-> t.cols, rows |-> SubSeq(t.rows, 1, ShortRows)]

SmpTables ==
    { SmpTable(<<"rel_height", "density", "ssa">>),
      SmpTable(<<"rel_height", "density">>),
      ShortProfile(SmpTable(<<"rel_height", "density", "ssa">>)) }

\* reference rows: site, height, rel_height, density, ssa, grain_type
RefRows ==
    << <<"RS01", 10, 10, 2, 7, "F">>,
       <<"RS01", 30, 30, 4, 5, "N">>,
       <<"RS01", 40, 40, 5, 4, "R">>,
       <<"RS01", 55, 55, 6, 2, "D">> >>

RefAllCols == <<"site", "height", "rel_height", "density", "ssa", "grain_type">>

\* the table made of the listed columns of RefRows, in the listed order
RefTable(names) ==
    LET pos(nm) == CHOOSE i \in 1..Len(RefAllCols) : RefAllCols[i] = nm
    IN  [cols |-> names,
         rows |-> [r \in 1..Len(RefRows) |->
                      [c \in 1..Len(names) |-> RefRows[r][pos(names[c])]]]]

RefTables ==
    { RefTable(<<"site", "height", "rel_height", "density", "grain_type">>),
      RefTable(<<"site", "height", "rel_height", "ssa", "grain_type">>),
      RefTable(<<"site", "height", "rel_height", "density", "ssa", "grain_type">>),
      RefTable(<<"site", "height", "rel_height", "ssa", "density", "grain_type">>),
      RefTable(<<"site", "height", "rel_height", "grain_type">>) }

----------------------------------------------------------------------------
(* extract_samples *)

\* a_value[np.abs(a_height - height) <= window_size]
Window(a_height, a_value, height, window_size) ==
    LET keep(i) == Abs(a_height[i] - height) <= window_size
        F[i \in 0..Len(a_value)] ==
            IF i = 0 THEN <<>>
            ELSE IF keep(i) THEN Append(F[i - 1], a_value[i]) ELSE F[i - 1]
    IN  F[Len(a_value)]

\* np.count_nonzero(w)
CountNonzero(w) == Cardinality({i \in 1..Len(w) : w[i] # 0})

\* (mutant) the mean of an empty slice is reported as 0
Mean_ZeroOnEmpty(w) == IF w = <<>> THEN Frac(0, 1) ELSE Frac(SeqSum(w), Len(w))

\* np.mean(w): NaN on an empty slice
Mean(w) == IF w = <<>> THEN NaN ELSE Frac(SeqSum(w), Len(w))

\* w in ascending order
RECURSIVE Sorted(_)
Sorted(w) ==
    IF w = <<>> THEN <<>>
    ELSE LET i == CHOOSE i \in 1..Len(w) : \A j \in 1..Len(w) : w[i] <= w[j]
         IN  <<w[i]>> \o Sorted(SubSeq(w, 1, i - 1) \o SubSeq(w, i + 1, Len(w)))

\* np.median(w): NaN on an empty slice
Median(w) ==
    LET n == Len(w)
        o == Sorted(w)
    IN  IF n = 0 THEN NaN
        ELSE IF n % 2 = 1 THEN Frac(o[(n + 1) \div 2], 1)
        ELSE Frac(o[n \div 2] + o[n \div 2 + 1], 2)

\* np.std(w), kept as its square (the population variance): NaN on an empty slice
Std(w) ==
    LET n == Len(w)
        sq == [i \in 1..n |-> w[i] * w[i]]
    IN  IF n = 0 THEN NaN
        ELSE Frac(n * SeqSum(sq) - SeqSum(w) * SeqSum(w), n * n)

\* extract_samples(a_height, a_value, b_height, window_size): one row per b_height
ExtractSamples(a_height, a_value, b_height, window_size) ==
    AsList([k \in 1..Len(b_height) |->
        LET w == Window(a_height, a_value, b_height[k], window_size)
        IN  [count_samp |-> CountNonzero(w),
             mean_samp |-> Mean(w),
             median_samp |-> Median(w),
             stdev_samp |-> Std(w)]])

----------------------------------------------------------------------------
(* calc_skill *)

\* the rows of s that pass keep, in order
Filter(s, keep(_)) ==
    LET F[i \in 0..Len(s)] ==
            IF i = 0 THEN <<>>
            ELSE IF keep(s[i]) THEN Append(F[i - 1], s[i]) ELSE F[i - 1]
    IN  F[Len(s)]

\* a row of a comparison table: the extracted statistics and the reference row
RowHasNaN(row) ==
    row.samp.mean_samp.nan \/ row.samp.median_samp.nan \/ row.samp.stdev_samp.nan

\* result.dropna(inplace=True)
DropNa(rows) == Filter(rows, LAMBDA row : ~RowHasNaN(row))

\* (mutant) only new snow is excluded
ExcludedGrains_NewSnowOnly == {"N"}

\* line 179: ['N', 'I']
ExcludedGrains == {"N", "I"}

\* result[~result['grain_type'].isin(['N', 'I'])]
KeepGrain(rows, gcol) == Filter(rows, LAMBDA row : row.ref[gcol] \notin ExcludedGrains)

RECURSIVE Lcm(_)
Lcm(dens) ==
    IF dens = <<>> THEN 1
    ELSE LET m == Lcm(Tail(dens)) IN (Head(dens) * m) \div Gcd(Head(dens), m)

Sign(x) == IF x > 0 THEN 1 ELSE IF x < 0 THEN -1 ELSE 0

\* (mutant) a column without variance is reported as uncorrelated (r = 0)
CorrCoef_ZeroWithoutVariance(x, y) ==
    LET n == Len(x)
        L == Lcm([i \in 1..n |-> x[i].den])
        X == [i \in 1..n |-> x[i].num * (L \div x[i].den)]
        sx == SeqSum(X)
        sy == SeqSum(y)
        sxx == SeqSum([i \in 1..n |-> X[i] * X[i]])
        syy == SeqSum([i \in 1..n |-> y[i] * y[i]])
        sxy == SeqSum([i \in 1..n |-> X[i] * y[i]])
        cov == n * sxy - sx * sy
        vx == n * sxx - sx * sx
        vy == n * syy - sy * sy
    IN  IF vx = 0 \/ vy = 0 THEN Frac(0, 1)
        ELSE Frac(Sign(cov) * cov * cov, vx * vy)

\* np.corrcoef(x, y)[1][0] for fractions x and whole numbers y, kept as
\* sign(r) * r^2 (same order, same ties); NaN when a variance is zero or
\* fewer than two rows are left
CorrCoef(x, y) ==
    LET n == Len(x)
        L == Lcm([i \in 1..n |-> x[i].den])
        X == [i \in 1..n |-> x[i].num * (L \div x[i].den)]
        sx == SeqSum(X)
        sy == SeqSum(y)
        sxx == SeqSum([i \in 1..n |-> X[i] * X[i]])
        syy == SeqSum([i \in 1..n |-> y[i] * y[i]])
        sxy == SeqSum([i \in 1..n |-> X[i] * y[i]])
        cov == n * sxy - sx * sy
        vx == n * sxx - sx * sx
        vy == n * syy - sy * sy
    IN  IF vx = 0 \/ vy = 0 THEN NaN
        ELSE Frac(Sign(cov) * cov * cov, vx * vy)

\* np.sqrt(np.mean((x - y)**2)), kept as its square; NaN without rows
Rmse(x, y) ==
    LET n == Len(x)
        L == Lcm([i \in 1..n |-> x[i].den])
        X == [i \in 1..n |-> x[i].num * (L \div x[i].den)]
        sq == [i \in 1..n |-> (X[i] - L * y[i]) * (X[i] - L * y[i])]
    IN  IF n = 0 THEN NaN ELSE Frac(SeqSum(sq), n * L * L)

\* calc_skill(result, window_size): result is a comparison table
\* [cols (of the reference part), rows]; returns r, rmse and the table as
\* dropna(inplace=True) left it
CalcSkill(result, window_size) ==
    LET dropped == DropNa(result.rows)
        gcol == CHOOSE i \in 1..Len(result.cols) : result.cols[i] = "grain_type"
        vcol == CHOOSE i \in 1..Len(result.cols) : result.cols[i] = "ref_val"
        used == KeepGrain(dropped, gcol)
        x == [i \in 1..Len(used) |-> used[i].samp.mean_samp]
        y == [i \in 1..Len(used) |-> used[i].ref[vcol]]
    IN  [r |-> CorrCoef(x, y),
         rmse |-> Rmse(x, y),
         result |-> [cols |-> result.cols, rows |-> dropped],
         used |-> Len(used)]

----------------------------------------------------------------------------
(* eval_scaling: ranking of the trials (lines 232-233) *)

\* (mutant) NaN sorts ahead of every number (na_position='first')
KeyBefore_NaFirst(a, b, ascending) ==
    IF b.nan THEN FALSE
    ELSE IF a.nan THEN TRUE
    ELSE IF ascending THEN Less(a, b) ELSE Less(b, a)

\* order of one sort key: NaN always last (na_position='last')
KeyBefore(a, b, ascending) ==
    IF a.nan THEN FALSE
    ELSE IF b.nan THEN TRUE
    ELSE IF ascending THEN Less(a, b) ELSE Less(b, a)

KeyEqual(a, b) == IF a.nan \/ b.nan THEN a.nan = b.nan ELSE a = b

\* (mutant) r is sorted in ascending order
RowBefore_RAscending(a, b) ==
    \/ KeyBefore(a.r, b.r, TRUE)
    \/ KeyEqual(a.r, b.r) /\ KeyBefore(a.rmse, b.rmse, TRUE)

\* sort_values(['r', 'rmse'], ascending=[False, True]): row a sorts before row b
RowBefore(a, b) ==
    \/ KeyBefore(a.r, b.r, FALSE)
    \/ KeyEqual(a.r, b.r) /\ KeyBefore(a.rmse, b.rmse, TRUE)

\* the sorted frame as the sequence of its index labels (0-based trial
\* numbers); rows with equal keys keep their order (stable sort)
SortValues(skill) ==
    LET n == Len(skill)
        ahead(i) == {j \in 1..n : \/ RowBefore(skill[j], skill[i])
                                  \/ (~RowBefore(skill[i], skill[j]) /\ j < i)}
    IN  [k \in 1..n |-> (CHOOSE i \in 1..n : Cardinality(ahead(i)) = k - 1) - 1]

\* .head(1).index.values
MinScalingIdx(skill) == IF Len(skill) = 0 THEN <<>> ELSE <<SortValues(skill)[1]>>

----------------------------------------------------------------------------
(* eval_scaling *)

MaxTests == 2        \* largest num_tests of a call

LAYER_H == 30                \* layer_h of the calls
MAX_STRETCH == 3             \* max_stretch = 0.15 (default)
MAX_LAYER_STRETCH == 15      \* max_layer_stretch = 0.75 (default)
SAMP_H == 5                  \* samp_h of the calls

EsIdle == [pc |-> "idle"]

COL_TYPES == <<"density", "ssa">>

\* (mutant) the reference columns are looked up in the table's own order
RefIloc_ColumnOrder(ref) ==
    LET F[i \in 0..Len(ref.cols)] ==
            IF i = 0 THEN <<>>
            ELSE IF ref.cols[i] \in Range(COL_TYPES) THEN Append(F[i - 1], i - 1)
            ELSE F[i - 1]
    IN  F[Len(ref.cols)]

\* (mutant) without a density or ssa column the first column is taken
RefIloc_OrFirstColumn(ref) ==
    LET F[i \in 0..Len(COL_TYPES)] ==
            IF i = 0 THEN <<>>
            ELSE IF HasCol(ref, COL_TYPES[i])
                 THEN Append(F[i - 1], (CHOOSE c \in ColsNamed(ref, COL_TYPES[i]) : TRUE) - 1)
                 ELSE F[i - 1]
    IN  IF F[Len(COL_TYPES)] = <<>> THEN <<0>> ELSE F[Len(COL_TYPES)]

\* line 216: [ref_dat.columns.get_loc(c) for c in col_types if c in ref_dat]
\* (0-based column positions, in the order of col_types)
RefIloc(ref) ==
    LET F[i \in 0..Len(COL_TYPES)] ==
            IF i = 0 THEN <<>>
            ELSE IF HasCol(ref, COL_TYPES[i])
                 THEN Append(F[i - 1], (CHOOSE c \in ColsNamed(ref, COL_TYPES[i]) : TRUE) - 1)
                 ELSE F[i - 1]
    IN  F[Len(COL_TYPES)]

\* lines 223-224: np.ceil(min(smp rel_height max, ref height max) / layer_h)
NumSections(smp, ref, layer_h) ==
    CeilDiv(Min(SeqMax(Col(smp, "rel_height")), SeqMax(Col(ref, "height"))), layer_h)

\* times FracDen: the warped depths are kept times FracDen
Scaled(a) == AsList([i \in 1..Len(a) |-> a[i] * FracDen])

\* line 230: pd.concat([profile, ref_dat.reset_index(drop=True)], axis=1)
ConcatRef(samples, ref) ==
    [cols |-> ref.cols,
     rows |-> AsList([k \in 1..Len(samples) |->
                         [samp |-> samples[k], ref |-> ref.rows[k]]])]

\* lines 226-231 for one scaling vector: warp, extract, join, score
Trial(test, smp, ref, layer_h, samp_h) ==
    LET w == ScaleProfile(test, Col(smp, "rel_height"), Col(smp, "smp_val"), layer_h, NoStep)
        ex == ExtractSamples(w.result_dist, w.result_value,
                             Scaled(Col(ref, "rel_height")), samp_h * FracDen)
    IN  CalcSkill(ConcatRef(ex, ref), samp_h)

\* (mutant) the vector of the first trial is reported, whichever trial won
ScalingMeta_FirstVector(skills, random_tests, idx, ref_type, ref, num_tests) ==
    [index |-> idx,
     r |-> skills[idx + 1].r,
     rmse |-> skills[idx + 1].rmse,
     ref_type |-> ref_type,
     scale_coeff |-> random_tests[1],
     scale_per |-> SeqSum(random_tests[1]),
     n_obs |-> Len(ref.rows),
     n_comp |-> Len(skills[idx + 1].result.rows),
     n_tests |-> num_tests]

\* lines 236-243: the summary of the selected trial
ScalingMeta(skills, random_tests, idx, ref_type, ref, num_tests) ==
    [index |-> idx,
     r |-> skills[idx + 1].r,
     rmse |-> skills[idx + 1].rmse,
     ref_type |-> ref_type,
     scale_coeff |-> random_tests[idx + 1],
     scale_per |-> SeqSum(random_tests[idx + 1]),
     n_obs |-> Len(ref.rows),
     n_comp |-> Len(skills[idx + 1].result.rows),
     n_tests |-> num_tests]

\* the caller seeds numpy's generator: np.random.seed(RANDOM_SEED)
Seed ==
    /\ es.pc = "idle"
    /\ rng' = SeedStream(RANDOM_SEED)
    /\ seed' = <<RANDOM_SEED>>
    /\ UNCHANGED <<rs, smp_dat, ref_dat, es, first, sp, rk, ext, skl, cal>>

\* the caller builds the two tables anew
Load ==
    /\ es.pc = "idle"
    /\ smp_dat' \in SmpTables
    /\ ref_dat' \in RefTables
    /\ UNCHANGED <<rng, seed, rs, es, first, sp, rk, ext, skl, cal>>

\* the caller builds a reference table anew and keeps the profile table of
\* the earlier calls
LoadRef ==
    /\ es.pc = "idle"
    /\ ref_dat' \in RefTables
    /\ UNCHANGED <<rng, seed, rs, smp_dat, es, first, sp, rk, ext, skl, cal>>

\* eval_scaling(smp_dat, ref_dat, num_tests, ...) is entered
ES_Call ==
    /\ es.pc = "idle"
    /\ \E n \in 1..MaxTests :
          es' = [pc |-> "reftype", num_tests |-> n, layer_h |-> LAYER_H,
                 max_stretch |-> MAX_STRETCH, max_layer_stretch |-> MAX_LAYER_STRETCH,
                 samp_h |-> SAMP_H,
                 smp0 |-> smp_dat, ref0 |-> ref_dat, rng0 |-> rng, seed0 |-> seed,
                 ref_type |-> "", num_sections |-> 0, random_tests |-> <<>>,
                 layer_order |-> <<>>, layer_stretch |-> <<>>]
    /\ UNCHANGED <<rng, seed, rs, smp_dat, ref_dat, first, sp, rk, ext, skl, cal>>

\* lines 215-217 when no reference column is found: columns[[]][0] raises
ES_NoRefType ==
    /\ es.pc = "reftype"
    /\ RefIloc(ref_dat) = <<>>
    /\ es' = [es EXCEPT !.pc = "error"]
    /\ UNCHANGED <<rng, seed, rs, smp_dat, ref_dat, first, sp, rk, ext, skl, cal>>

\* lines 215-224: reference type, in-place renames, number of layers
ES_RefType ==
    /\ es.pc = "reftype"
    /\ RefIloc(ref_dat) # <<>>
    /\ LET ref_type == ref_dat.cols[RefIloc(ref_dat)[1] + 1]
           ref == Rename(ref_dat, ref_type, "ref_val")
           smp == Rename(smp_dat, ref_type, "smp_val")
       IN  /\ ref_dat' = ref
           /\ smp_dat' = smp
           /\ es' = [es EXCEPT !.pc = "gen", !.ref_type = ref_type,
                               !.num_sections = NumSections(smp, ref, es.layer_h)]
    /\ UNCHANGED <<rng, seed, rs, first, sp, rk, ext, skl, cal>>

\* line 225, random_scaling lines 130-133: a candidate for the next trial
ES_Draw ==
    /\ es.pc = "gen"
    /\ Len(es.random_tests) < es.num_tests
    /\ LET p == RandomScalingPass(rng, es.num_sections, es.max_stretch, es.max_layer_stretch)
       IN  /\ rng' = p.g
           /\ es' = [es EXCEPT !.pc = "test", !.layer_order = p.layer_order,
                               !.layer_stretch = p.layer_stretch]
    /\ UNCHANGED <<seed, rs, smp_dat, ref_dat, first, sp, rk, ext, skl, cal>>

\* random_scaling line 134 false: the candidate is dropped
ES_Redraw ==
    /\ es.pc = "test"
    /\ ~WithinTotalBudget(es.layer_stretch, es.max_stretch)
    /\ es' = [es EXCEPT !.pc = "gen", !.layer_order = <<>>, !.layer_stretch = <<>>]
    /\ UNCHANGED <<rng, seed, rs, smp_dat, ref_dat, first, sp, rk, ext, skl, cal>>

\* random_scaling line 134 true: the vector of this trial is returned
ES_Accept ==
    /\ es.pc = "test"
    /\ WithinTotalBudget(es.layer_stretch, es.max_stretch)
    /\ es' = [es EXCEPT !.pc = "gen", !.layer_order = <<>>, !.layer_stretch = <<>>,
                        !.random_tests =
                            Append(@, RandomScalingResult(es.layer_stretch, es.layer_order))]
    /\ UNCHANGED <<rng, seed, rs, smp_dat, ref_dat, first, sp, rk, ext, skl, cal>>

\* the canonical column is carried by exactly one column of each table
Canonical(smp, ref) ==
    /\ Cardinality(ColsNamed(smp, "smp_val")) = 1
    /\ Cardinality(ColsNamed(ref, "ref_val")) = 1

\* line 226 on a profile table without smp_val column: AttributeError
ES_NoSmpVal ==
    /\ es.pc = "gen"
    /\ Len(es.random_tests) = es.num_tests
    /\ ~HasCol(smp_dat, "smp_val")
    /\ es' = [es EXCEPT !.pc = "error"]
    /\ UNCHANGED <<rng, seed, rs, smp_dat, ref_dat, first, sp, rk, ext, skl, cal>>

\* lines 226-231 with smp_val or ref_val carried by two columns: pandas
\* hands out a frame where a column is expected; what follows is not modelled
ES_Ambiguous ==
    /\ es.pc = "gen"
    /\ Len(es.random_tests) = es.num_tests
    /\ HasCol(smp_dat, "smp_val")
    /\ ~Canonical(smp_dat, ref_dat)
    /\ es' = [es EXCEPT !.pc = "ambiguous"]
    /\ UNCHANGED <<rng, seed, rs, smp_dat, ref_dat, first, sp, rk, ext, skl, cal>>

\* lines 226-245: all trials are warped, sampled and scored, the best is
\* selected and summarised
ES_Score ==
    /\ es.pc = "gen"
    /\ Len(es.random_tests) = es.num_tests
    /\ Canonical(smp_dat, ref_dat)
    /\ LET skills == AsList([t \in 1..es.num_tests |->
                         Trial(es.random_tests[t], smp_dat, ref_dat, es.layer_h, es.samp_h)])
           retrieved_skill == AsList([t \in 1..es.num_tests |->
                                  [r |-> skills[t].r, rmse |-> skills[t].rmse]])
           min_scaling_idx == MinScalingIdx(retrieved_skill)
           meta == ScalingMeta(skills, es.random_tests, min_scaling_idx[1],
                               es.ref_type, ref_dat, es.num_tests)
       IN  es' = [pc |-> "done", num_tests |-> es.num_tests, layer_h |-> es.layer_h,
                  max_stretch |-> es.max_stretch,
                  max_layer_stretch |-> es.max_layer_stretch,
                  samp_h |-> es.samp_h,
                  smp0 |-> es.smp0, ref0 |-> es.ref0, rng0 |-> es.rng0,
                  seed0 |-> es.seed0,
                  ref_type |-> es.ref_type, num_sections |-> es.num_sections,
                  random_tests |-> es.random_tests,
                  layer_order |-> <<>>, layer_stretch |-> <<>>,
                  retrieved_skill |-> retrieved_skill,
                  used |-> [t \in 1..es.num_tests |-> skills[t].used],
                  scaling_meta |-> meta,
                  scaling_result |-> skills[min_scaling_idx[1] + 1].result]
    /\ UNCHANGED <<rng, seed, rs, smp_dat, ref_dat, first, sp, rk, ext, skl, cal>>

\* a run counts as made from the seed when the generator was seeded with
\* RANDOM_SEED and untouched since
FromSeed(e) == e.seed0 = <<RANDOM_SEED>> /\ e.rng0 = SeedStream(RANDOM_SEED)

\* eval_scaling returns (or has raised); the first finished run made from
\* the seed is remembered for comparison
ES_Return ==
    /\ es.pc \in {"done", "error", "ambiguous"}
    /\ es' = EsIdle
    /\ first' = IF es.pc = "done" /\ ~first.set /\ FromSeed(es)
                THEN [set |-> TRUE, smp0 |-> es.smp0, ref0 |-> es.ref0,
                      num_tests |-> es.num_tests,
                      num_sections |-> es.num_sections,
                      random_tests |-> es.random_tests,
                      scaling_meta |-> es.scaling_meta]
                ELSE first
    /\ UNCHANGED <<rng, seed, rs, smp_dat, ref_dat, sp, rk, ext, skl, cal>>

MaxEntropy == 3      \* the unseeded generator starts in one of MaxEntropy + 1 streams

Init ==
    /\ rng \in {SeedStream(k) : k \in 0..MaxEntropy}
    /\ seed = <<>>
    /\ rs = RsIdle
    /\ smp_dat \in SmpTables
    /\ ref_dat \in RefTables
    /\ es = EsIdle
    /\ first = [set |-> FALSE]
    /\ sp = SpIdle
    /\ rk = [pc |-> "idle"]
    /\ ext = [pc |-> "idle"]
    /\ skl = [pc |-> "idle"]
    /\ cal = [pc |-> "idle"]

Next ==
    \/ Seed \/ Load \/ LoadRef \/ ES_Call \/ ES_NoRefType \/ ES_RefType
    \/ ES_Draw \/ ES_Redraw \/ ES_Accept
    \/ ES_NoSmpVal \/ ES_Ambiguous \/ ES_Score \/ ES_Return

Spec == Init /\ [][Next]_vars

----------------------------------------------------------------------------
\* C1: every vector returned by random_scaling keeps both budgets: each
\* element is at most max_change_layer in magnitude and the sum of the
\* elements is at most max_change in magnitude.
C1_BudgetsHold ==
    rs.pc = "done" =>
        /\ Len(rs.result) = rs.layer_num
        /\ \A i \in 1..Len(rs.result) : Abs(rs.result[i]) <= rs.max_change_layer
        /\ Abs(SeqSum(rs.result)) <= rs.max_change

\* a vector of two layers returned after at least one rejected candidate,
\* un-permuted from a non-identity layer_order
C1_Witness ==
    /\ rs.pc = "done"
    /\ rs.layer_num = 2
    /\ rs.rejected
    /\ rs.layer_order = <<1, 0>>
    /\ rs.result[1] # rs.result[2]

\* C2: random_scaling always ends: started on a budget that no draw can
\* meet (max_change < 0), it still leaves the loop (with a result or with a
\* ScalingBudgetUnsatisfiable failure).
C2_Terminates ==
    (rs.pc = "loop" /\ rs.max_change < 0) ~> (rs.pc \in {"idle", "done", "failed"})

(* extract_samples called on its own: inputs drawn at the start, one call *)

MaxExPoints == 4     \* longest a_height of a direct extract_samples call
MaxExTargets == 2    \* longest b_height of a direct extract_samples call

ExStep == 5          \* spacing of the source depths of the direct calls

\* source depths 0, ExStep, 2*ExStep, ...
ExHeights(n) == [i \in 1..n |-> (i - 1) * ExStep]

\* source values, 0 among them
ExValues(n) == [1..n -> {0, 2, 3}]

\* target depths in any order, on and off the source depths
ExTargets == UNION {[1..m -> {0, 2 * ExStep, 8 * ExStep}] : m \in 0..MaxExTargets}

InitEx ==
    /\ rng = SeedStream(RANDOM_SEED)
    /\ seed = <<>>
    /\ rs = RsIdle
    /\ smp_dat = NoTable
    /\ ref_dat = NoTable
    /\ es = EsIdle
    /\ first = [set |-> FALSE]
    /\ sp = SpIdle
    /\ rk = [pc |-> "idle"]
    /\ skl = [pc |-> "idle"]
    /\ cal = [pc |-> "idle"]
    /\ \E n \in 0..MaxExPoints :
          \E v \in ExValues(n), b \in ExTargets, w \in {0, ExStep} :
             ext = [pc |-> "call", a_height |-> ExHeights(n), a_value |-> v,
                    b_height |-> b, window_size |-> w]

\* lines 185-194: the call runs and returns the frame (no statement of it
\* raises: the statistics of an empty slice are NaN with a muted warning)
EX_Run ==
    /\ ext.pc = "call"
    /\ ext' = [pc |-> "done", a_height |-> ext.a_height, a_value |-> ext.a_value,
               b_height |-> ext.b_height, window_size |-> ext.window_size,
               extracted_samples |->
                   ExtractSamples(ext.a_height, ext.a_value, ext.b_height, ext.window_size)]
    /\ UNCHANGED <<rng, seed, rs, smp_dat, ref_dat, es, first, sp, rk, skl, cal>>

NextEx == EX_Run

SpecEx == InitEx /\ [][NextEx]_vars

----------------------------------------------------------------------------
(* calc_skill called on its own: a comparison table drawn at the start, one call *)

MaxSkRows == 3       \* most rows of a directly scored comparison table

\* the extracted statistics of a window whose samples all have the value v,
\* and of an empty window
SampOf(v) == [count_samp |-> 1, mean_samp |-> Frac(v, 1),
              median_samp |-> Frac(v, 1), stdev_samp |-> Frac(0, 1)]

SampEmpty == [count_samp |-> 0, mean_samp |-> NaN, median_samp |-> NaN, stdev_samp |-> NaN]

\* rows of a comparison table: statistics beside a reference value and grain type
SkRows ==
    {[samp |-> x, ref |-> <<v, g>>] :
        x \in {SampEmpty, SampOf(2), SampOf(4)}, v \in {2, 4}, g \in {"F", "N", "I"}}

SkTables ==
    {[cols |-> <<"ref_val", "grain_type">>, rows |-> rows] :
        rows \in UNION {[1..n -> SkRows] : n \in 0..MaxSkRows}}

InitSk ==
    /\ rng = SeedStream(RANDOM_SEED)
    /\ seed = <<>>
    /\ rs = RsIdle
    /\ smp_dat = NoTable
    /\ ref_dat = NoTable
    /\ es = EsIdle
    /\ first = [set |-> FALSE]
    /\ sp = SpIdle
    /\ rk = [pc |-> "idle"]
    /\ ext = [pc |-> "idle"]
    /\ cal = [pc |-> "idle"]
    /\ \E t \in SkTables : skl = [pc |-> "call", result |-> t]

\* lines 175-183: the call runs and returns (r, rmse); no statement of it
\* raises on a short or empty table
SK_Run ==
    /\ skl.pc = "call"
    /\ LET y == CalcSkill(skl.result, SAMP_H)
       IN  skl' = [pc |-> "done", result |-> skl.result,
                   r |-> y.r, rmse |-> y.rmse, used |-> y.used]
    /\ UNCHANGED <<rng, seed, rs, smp_dat, ref_dat, es, first, sp, rk, ext, cal>>

NextSk == SK_Run

SpecSk == InitSk /\ [][NextSk]_vars

----------------------------------------------------------------------------
(* Calibration formulas: calc_density, calc_ssa, calc_ssa_loglog.
   Floats are kept as [kind, v]: kind "fin" with the value v on a fixed
   scale, or one of the IEEE markers "inf", "ninf" (minus infinity), "nan".
   force_median and l are kept times 100, coefficients times 100,
   logarithms times 1000. *)

Fin(v) == [kind |-> "fin", v |-> v]
XInf == [kind |-> "inf", v |-> 0]
XNegInf == [kind |-> "ninf", v |-> 0]
XNaN == [kind |-> "nan", v |-> 0]

\* natural logarithm (times 1000) of the positive inputs (times 100) of the model
LnMilli(x) ==
    CASE x = 5 -> 0 - 2996
      [] x = 50 -> 0 - 693
      [] x = 100 -> 0
      [] x = 200 -> 693
      [] x = 400 -> 1386

\* np.log(x): -inf at 0 and nan below 0 (with a warning, no exception)
XLog(x) == IF x > 0 THEN Fin(LnMilli(x)) ELSE IF x = 0 THEN XNegInf ELSE XNaN

\* c * a for a finite number c
XScale(c, a) ==
    CASE a.kind = "fin" -> Fin(c * a.v)
      [] a.kind = "nan" -> XNaN
      [] a.kind = "inf" -> IF c > 0 THEN XInf ELSE IF c < 0 THEN XNegInf ELSE XNaN
      [] a.kind = "ninf" -> IF c > 0 THEN XNegInf ELSE IF c < 0 THEN XInf ELSE XNaN

\* a + b
XAdd(a, b) ==
    IF a.kind = "nan" \/ b.kind = "nan" THEN XNaN
    ELSE IF a.kind = "fin" THEN (IF b.kind = "fin" THEN Fin(a.v + b.v) ELSE b)
    ELSE IF b.kind = "fin" \/ b.kind = a.kind THEN a
    ELSE XNaN

\* np.round(whole + a/den, 0) for a whole number 'whole': ties go to the even number
XRound(whole, a, den) ==
    IF a.kind # "fin" THEN a
    ELSE LET q == whole + (a.v \div den)
             r == a.v % den
         IN  Fin(IF 2 * r < den THEN q
                 ELSE IF 2 * r > den THEN q + 1
                 ELSE IF q % 2 = 0 THEN q ELSE q + 1)

\* np.exp(a): a finite number stays finite (kept by its exponent), exp(-inf)
\* is the finite number 0.0
XExp(a) ==
    CASE a.kind = "fin" -> [kind |-> "exp", v |-> a.v]
      [] a.kind = "ninf" -> [kind |-> "zero", v |-> 0]
      [] a.kind = "inf" -> XInf
      [] a.kind = "nan" -> XNaN

\* (mutant) the interaction term leaves l out
Interaction_WithoutL(c2, log_f, l) == XScale(100, XScale(c2, log_f))

\* line 68: coefs[2] * np.log(shot_noise.force_median) * shot_noise.l
Interaction(c2, log_f, l) == XScale(l, XScale(c2, log_f))

\* lines 67-69 for one record; the result is in tenths.  The terms after
\* coefs[0] are summed on the scale 10^7, coefs[0] is added in the rounding.
CalcDensity(rec, coefs) ==
    LET log_f == XLog(rec.force_median)
        t1 == XScale(100, XScale(coefs[2], log_f))
        t2 == Interaction(coefs[3], log_f, rec.l)
        t3 == Fin(coefs[4] * rec.l * 1000)
        rest == XAdd(XAdd(XAdd(Fin((coefs[1] % 10) * 100000), t1), t2), t3)
    IN  XRound(coefs[1] \div 10, rest, 1000000)

\* lines 106-108 for one record; the result is in tenths
CalcSsa(rec, coefs) ==
    LET sum == XAdd(XAdd(Fin(coefs[1] * 1000), XScale(coefs[2], XLog(rec.l))),
                    XScale(coefs[3], XLog(rec.force_median)))
    IN  XRound(0, sum, 10000)

\* lines 87-89 for one record
CalcSsaLogLog(rec, coefs) ==
    XExp(XAdd(XAdd(Fin(coefs[1] * 1000), XScale(coefs[2], XLog(rec.l))),
              XScale(coefs[3], XLog(rec.force_median))))

KING_COEFF == <<31254, 5027, 0 - 5026, 0 - 8538>>
CALONNE_COEFF == <<57, 0 - 1856, 0 - 366>>

MaxRecords == 2      \* most records of a directly calibrated frame

\* force_median and l of a record (times 100), non-positive ones among them
Records ==
    {[force_median |-> f, l |-> l] : f \in {0 - 100, 0, 100, 200, 400},
                                      l \in {0 - 5, 0, 5, 50, 100}}

\* the calls: a formula, its coefficients, a frame of records
CalCalls ==
    {[pc |-> "call", fn |-> c[1], coefs |-> c[2], shot_noise |-> sn] :
        c \in {<<"calc_density", KING_COEFF>>, <<"calc_density", <<10000, 0, 0, 0>> >>,
               <<"calc_ssa", CALONNE_COEFF>>, <<"calc_ssa", <<57, 1856, 366>> >>,
               <<"calc_ssa_loglog", CALONNE_COEFF>>, <<"calc_ssa_loglog", <<57, 1856, 366>> >>},
        sn \in UNION {[1..n -> Records] : n \in 1..MaxRecords}}

InitCal ==
    /\ rng = SeedStream(RANDOM_SEED)
    /\ seed = <<>>
    /\ rs = RsIdle
    /\ smp_dat = NoTable
    /\ ref_dat = NoTable
    /\ es = EsIdle
    /\ first = [set |-> FALSE]
    /\ sp = SpIdle
    /\ rk = [pc |-> "idle"]
    /\ ext = [pc |-> "idle"]
    /\ skl = [pc |-> "idle"]
    /\ cal \in CalCalls

\* the called formula is applied to every record (return_df = False)
CAL_Run ==
    /\ cal.pc = "call"
    /\ cal' = [cal EXCEPT !.pc = "done"] @@
              [result |-> [i \in 1..Len(cal.shot_noise) |->
                  CASE cal.fn = "calc_density" -> CalcDensity(cal.shot_noise[i], cal.coefs)
                    [] cal.fn = "calc_ssa" -> CalcSsa(cal.shot_noise[i], cal.coefs)
                    [] cal.fn = "calc_ssa_loglog" -> CalcSsaLogLog(cal.shot_noise[i], cal.coefs)]]
    /\ UNCHANGED <<rng, seed, rs, smp_dat, ref_dat, es, first, sp, rk, ext, skl>>

NextCal == CAL_Run

SpecCal == InitCal /\ [][NextCal]_vars

----------------------------------------------------------------------------
MaxRanked == 4       \* most trials in a directly ranked score table

\* scores of one trial as calc_skill can return them: r (as sign(r)*r^2)
\* and rmse (as its square); NaN r for a constant column, NaN r and rmse
\* for a comparison without rows
SkillRows ==
    {[r |-> r, rmse |-> m] :
        r \in {Frac(0 - 1, 4), Frac(1, 4), Frac(1, 1)}, m \in {Frac(1, 2), Frac(2, 1)}}
    \cup {[r |-> NaN, rmse |-> m] : m \in {NaN, Frac(1, 2), Frac(2, 1)}}

SkillTables == UNION {[1..n -> SkillRows] : n \in 1..MaxRanked}

\* line 232: retrieved_skill = pd.DataFrame(retrieved_skill, columns=['r','rmse'])
InitSel ==
    /\ rng = SeedStream(RANDOM_SEED)
    /\ seed = <<RANDOM_SEED>>
    /\ rs = RsIdle
    /\ smp_dat = NoTable
    /\ ref_dat = NoTable
    /\ es = EsIdle
    /\ first = [set |-> FALSE]
    /\ sp = SpIdle
    /\ ext = [pc |-> "idle"]
    /\ skl = [pc |-> "idle"]
    /\ cal = [pc |-> "idle"]
    /\ \E k \in SkillTables : rk = [pc |-> "scored", retrieved_skill |-> k]

\* lines 233, 236: the table is ranked and the top row taken
SEL_Rank ==
    /\ rk.pc = "scored"
    /\ LET min_scaling_idx == MinScalingIdx(rk.retrieved_skill)
       IN  rk' = [pc |-> "ranked", retrieved_skill |-> rk.retrieved_skill,
                  min_scaling_idx |-> min_scaling_idx,
                  scaling_meta |-> [index |-> min_scaling_idx[1],
                                    r |-> rk.retrieved_skill[min_scaling_idx[1] + 1].r,
                                    rmse |-> rk.retrieved_skill[min_scaling_idx[1] + 1].rmse]]
    /\ UNCHANGED <<rng, seed, rs, smp_dat, ref_dat, es, first, sp, ext, skl, cal>>

NextSel == SEL_Rank

SpecSel == InitSel /\ [][NextSel]_vars

----------------------------------------------------------------------------
\* the finished call was given the seed and the tables of the remembered run
SameSeedAndInputs ==
    /\ es.pc = "done"
    /\ first.set
    /\ es.seed0 = <<RANDOM_SEED>>
    /\ es.smp0 = first.smp0
    /\ es.ref0 = first.ref0
    /\ es.num_tests = first.num_tests

\* C3: eval_scaling is deterministic: a run given the same seed and the same
\* profile and reference tables as an earlier run selects the same
\* ScalingVector and reports the same r and RMSE, whatever the random source
\* went through before the run.
C3_Deterministic ==
    SameSeedAndInputs =>
        /\ es.scaling_meta.scale_coeff = first.scaling_meta.scale_coeff
        /\ es.scaling_meta.r = first.scaling_meta.r
        /\ es.scaling_meta.rmse = first.scaling_meta.rmse

\* C4: the ScalingVector of trial t is a function of the seed and t only:
\* under the same seed (and layer count) trial t gets the same vector in
\* every run, however many draws other trials have consumed before it.
C4_TrialVectorBySeedAndIndex ==
    (/\ es.pc \in {"gen", "test", "done"}
     /\ first.set
     /\ es.seed0 = <<RANDOM_SEED>>
     /\ es.num_sections = first.num_sections) =>
        \A t \in 1..Min(Len(es.random_tests), Len(first.random_tests)) :
            es.random_tests[t] = first.random_tests[t]

\* C5: the selected trial is the first in the ranking by r descending, then
\* RMSE ascending: no trial has a larger r, no trial with the same r has a
\* smaller RMSE, and of the trials with the same r and RMSE the one with the
\* lowest index is selected.  (A trial without r or RMSE ranks behind the
\* trials that have one.)
C5_SelectsTopRanked ==
    rk.pc = "ranked" =>
        LET sel == rk.scaling_meta.index + 1
            k == rk.retrieved_skill
        IN  /\ sel \in 1..Len(k)
            /\ rk.scaling_meta.r = k[sel].r
            /\ rk.scaling_meta.rmse = k[sel].rmse
            /\ \A t \in 1..Len(k) :
                  /\ ~k[t].r.nan => ~k[sel].r.nan /\ ~Less(k[sel].r, k[t].r)
                  /\ (k[t].r = k[sel].r /\ ~k[t].rmse.nan) =>
                        ~k[sel].rmse.nan /\ ~Less(k[t].rmse, k[sel].rmse)
                  /\ (k[t].r = k[sel].r /\ k[t].rmse = k[sel].rmse) => sel <= t

\* all three keys decide: the first trial has a smaller r, the second the
\* top r but a larger RMSE, the last two are tied and the earlier is selected
C5_Witness ==
    /\ rk.pc = "ranked"
    /\ Len(rk.retrieved_skill) = 4
    /\ rk.scaling_meta.index = 2
    /\ ~rk.retrieved_skill[1].r.nan
    /\ Less(rk.retrieved_skill[1].r, rk.retrieved_skill[2].r)
    /\ rk.retrieved_skill[2].r = rk.retrieved_skill[3].r
    /\ Less(rk.retrieved_skill[3].rmse, rk.retrieved_skill[2].rmse)
    /\ rk.retrieved_skill[3] = rk.retrieved_skill[4]

\* the reference table handed to the call has the column
RefHad(col) == es.pc # "idle" /\ HasCol(es.ref0, col)

\* the call has stopped (or is about to) without a vector drawn, a trial run
\* or a table touched
FailedFast ==
    /\ es.pc \in {"reftype", "error"}
    /\ es.random_tests = <<>>
    /\ rng = es.rng0

\* C6: with neither a density nor an ssa column in the reference table,
\* eval_scaling fails before any ScalingVector is generated and before any
\* trial is warped or scored.
C6_NoReferenceFailsFast ==
    (es.pc # "idle" /\ ~RefHad("density") /\ ~RefHad("ssa")) => FailedFast

C6_Witness ==
    /\ es.pc = "error"
    /\ ~RefHad("density") /\ ~RefHad("ssa")
    /\ HasCol(es.ref0, "ref_val")
    /\ first.set

\* C7: with both a density and an ssa column in the reference table,
\* eval_scaling fails with an input-data error and runs no trial.
C7_BothReferencesFailFast ==
    (RefHad("density") /\ RefHad("ssa")) => FailedFast

\* C8: eval_scaling leaves the caller's tables alone: when the call is
\* over, the profile table and the reference table have the column names
\* and the rows they had when the call was made.
C8_TablesUntouched ==
    es.pc \in {"done", "error", "ambiguous"} =>
        /\ smp_dat = es.smp0
        /\ ref_dat = es.ref0

\* C9: scale_profile returns a warped depth array that never decreases
\* (also across layer boundaries and skipped layers) and a warped value
\* array of the same length.
C9_DepthMonotoneSameLength ==
    sp.pc = "done" =>
        /\ Len(sp.result_dist) = Len(sp.result_value)
        /\ \A i \in 1..(Len(sp.result_dist) - 1) :
              sp.result_dist[i] <= sp.result_dist[i + 1]

\* a warp with a stretched and an eroded layer, output from at least two
\* layers and a skipped layer
C9_Witness ==
    /\ sp.pc = "done"
    /\ \E i \in 1..Len(sp.layers) : ~sp.layers[i].kept
    /\ \E i, j \in 1..Len(sp.scaling_guess) :
          sp.scaling_guess[i] > 0 /\ sp.scaling_guess[j] < 0
    /\ Cardinality({i \in 1..Len(sp.layers) : sp.layers[i].kept}) >= 2
    /\ Len(sp.result_dist) > 3

RECURSIVE Concat(_)
Concat(ss) == IF ss = <<>> THEN <<>> ELSE Head(ss) \o Concat(Tail(ss))

\* the stretched depth axis of the finished scale_profile call and its step
SpStep ==
    (IF sp.h_resample = NoStep THEN sp.depth_array[2] - sp.depth_array[1]
     ELSE sp.h_resample) * FracDen

SpDepthStretch ==
    ARange(SeqSum(LayerThickness(sp.scaling_guess, sp.l_resample)), SpStep)

\* what the layers with more than two source points put out, end to end
OutputOfFullLayers(layers, field) ==
    Concat([i \in 1..Len(layers) |->
               IF Len(layers[i].orig_value) > 2 THEN layers[i][field] ELSE <<>>])

\* C11: a layer whose source window holds two or fewer points appends
\* nothing (and the call still returns); a layer with more than two points
\* appends exactly its stretched segment (one value per depth); the output
\* is these contributions in layer order; the running offset l_last moves on
\* past skipped layers as past kept ones.
C11_ThinLayersSkipped ==
    sp.pc = "done" =>
        /\ Len(sp.layers) = Len(sp.scaling_guess)
        /\ \A i \in 1..Len(sp.layers) :
              LET y == sp.layers[i]
              IN  /\ Len(y.orig_value) <= 2 =>
                        y.scaled_dist = <<>> /\ y.scaled_value = <<>>
                  /\ Len(y.orig_value) > 2 =>
                        /\ y.scaled_dist = Slice(SpDepthStretch, y.l_start_idx, y.l_end_idx + 1)
                        /\ Len(y.scaled_value) = Len(y.scaled_dist)
                  /\ y.l_start = (IF i = 1 THEN 0 ELSE sp.layers[i - 1].l_last + SpStep)
        /\ sp.result_dist = OutputOfFullLayers(sp.layers, "scaled_dist")
        /\ sp.result_value = OutputOfFullLayers(sp.layers, "scaled_value")

\* a first layer of exactly two source points is skipped, the layer after it
\* is warped and starts one step past the skipped layer's end, and a last
\* layer is skipped again
C11_Witness ==
    /\ sp.pc = "done"
    /\ Len(sp.layers) = 3
    /\ Len(sp.layers[1].orig_value) = 2 /\ sp.layers[1].scaled_dist = <<>>
    /\ Len(sp.layers[2].orig_value) > 2 /\ sp.layers[2].scaled_dist # <<>>
    /\ Len(sp.layers[3].orig_value) <= 2 /\ sp.layers[3].scaled_dist = <<>>
    /\ sp.layers[1].l_last > 0
    /\ sp.layers[2].scaled_dist[1] = sp.layers[1].l_last + SpStep
    /\ sp.result_dist = sp.layers[2].scaled_dist

AllZero(v) == \A i \in 1..Len(v) : v[i] = 0

\* the source windows of the layers that scale_profile kept, end to end
KeptSource(layers, field) ==
    Concat([i \in 1..Len(layers) |->
               IF layers[i].kept THEN layers[i][field] ELSE <<>>])

\* C10: identity law of scale_profile.  With an all-zero ScalingVector and
\* the default resample step (source profile starting at depth 0), every
\* kept layer's output segment has as many samples as its source window
\* and the warped depth/value pairs are the source pairs of those layers.
C10_IdentityLaw ==
    (/\ sp.pc = "done"
     /\ AllZero(sp.scaling_guess)
     /\ sp.h_resample = NoStep
     /\ sp.depth_array[1] = 0) =>
        /\ \A i \in 1..Len(sp.layers) :
              sp.layers[i].kept =>
                 Len(sp.layers[i].scaled_dist) = Len(sp.layers[i].orig_dist)
        /\ sp.result_value = KeptSource(sp.layers, "orig_value")
        /\ sp.result_dist =
              [i \in 1..Len(KeptSource(sp.layers, "orig_dist")) |->
                  FracDen * KeptSource(sp.layers, "orig_dist")[i]]

\* source samples (positions in a_height) within the half-window of a target
InWindow(height) ==
    {i \in 1..Len(ext.a_height) : Abs(ext.a_height[i] - height) <= ext.window_size}

\* C12: extract_samples returns also when a window is empty: the row of a
\* target depth with no source sample within the half-window has count 0
\* and NaN mean, median and standard deviation, and every row is what the
\* call on its target depth alone gives.
C12_EmptyWindowIsNaN ==
    ext.pc = "done" =>
        /\ Len(ext.extracted_samples) = Len(ext.b_height)
        /\ \A k \in 1..Len(ext.b_height) :
              LET row == ext.extracted_samples[k]
              IN  /\ InWindow(ext.b_height[k]) = {} =>
                        /\ row.count_samp = 0
                        /\ row.mean_samp = NaN
                        /\ row.median_samp = NaN
                        /\ row.stdev_samp = NaN
                  /\ InWindow(ext.b_height[k]) # {} =>
                        ~row.mean_samp.nan /\ ~row.median_samp.nan /\ ~row.stdev_samp.nan
                  /\ row = ExtractSamples(ext.a_height, ext.a_value,
                                          <<ext.b_height[k]>>, ext.window_size)[1]

\* an empty window between two windows that hold samples
C12_Witness ==
    /\ ext.pc = "done"
    /\ Len(ext.b_height) = 2
    /\ InWindow(ext.b_height[1]) = {}
    /\ ext.extracted_samples[1].mean_samp = NaN
    /\ Cardinality(InWindow(ext.b_height[2])) = 3
    /\ ~ext.extracted_samples[2].mean_samp.nan

\* C13: extract_samples returns one row per target depth, in the order of
\* the target depths, and the count of a row is the number of source
\* samples within the half-window (boundary included), whatever their values.
C13_CountIsWindowSize ==
    ext.pc = "done" =>
        /\ Len(ext.extracted_samples) = Len(ext.b_height)
        /\ \A k \in 1..Len(ext.b_height) :
              ext.extracted_samples[k].count_samp =
                  Cardinality(InWindow(ext.b_height[k]))

\* the rows of the scored table that are complete and of a grain type that
\* is not new snow or ice
ValidRows ==
    {i \in 1..Len(skl.result.rows) :
        /\ ~skl.result.rows[i].samp.mean_samp.nan
        /\ skl.result.rows[i].ref[2] \notin {"N", "I"}}

\* C14: calc_skill returns NaN for both r and RMSE (and does not raise)
\* whenever fewer than two valid rows are left: with no row left and with
\* exactly one row left.
C14_TooFewRowsIsNaN ==
    (skl.pc = "done" /\ Cardinality(ValidRows) < 2) =>
        skl.r = NaN /\ skl.rmse = NaN

\* the table with the rows of the given grain types deleted
RECURSIVE WithoutGrains(_, _)
WithoutGrains(rows, grains) ==
    IF rows = <<>> THEN <<>>
    ELSE IF Head(rows).ref[2] \in grains THEN WithoutGrains(Tail(rows), grains)
    ELSE <<Head(rows)>> \o WithoutGrains(Tail(rows), grains)

\* C15: rows of new snow ('N') and ice ('I') never influence the scores:
\* the table with these rows deleted beforehand gets the same r and RMSE,
\* and every complete row of another grain type is scored.
C15_ExcludedGrainsIgnored ==
    skl.pc = "done" =>
        LET bare == [cols |-> skl.result.cols,
                     rows |-> WithoutGrains(skl.result.rows, {"N", "I"})]
            y == CalcSkill(bare, SAMP_H)
        IN  /\ skl.r = y.r
            /\ skl.rmse = y.rmse
            /\ skl.used = Cardinality(ValidRows)

\* an ice row that would change both scores lies beside two rows that are
\* scored
C15_Witness ==
    /\ skl.pc = "done"
    /\ Len(skl.result.rows) = 3
    /\ skl.used = 2
    /\ \E i \in 1..3 :
          /\ skl.result.rows[i].ref[2] = "I"
          /\ ~skl.result.rows[i].samp.mean_samp.nan
          /\ skl.result.rows[i].samp.mean_samp # Frac(skl.result.rows[i].ref[1], 1)
    /\ skl.r = Frac(1, 1)
    /\ skl.rmse = Frac(0, 1)

\* mean_samp equals ref_val in every scored row, and two rows or more are scored
IdenticalColumns ==
    /\ Cardinality(ValidRows) >= 2
    /\ \A i \in ValidRows :
          skl.result.rows[i].samp.mean_samp = Frac(skl.result.rows[i].ref[1], 1)

\* C16: on identical mean_samp and ref_val columns calc_skill gives
\* RMSE = 0, and r = 1 unless the common sequence has zero variance, in
\* which case (and only then) r is NaN.
C16_IdenticalColumnsScorePerfect ==
    (skl.pc = "done" /\ IdenticalColumns) =>
        /\ skl.rmse = Frac(0, 1)
        /\ skl.r = (IF \A i, j \in ValidRows :
                          skl.result.rows[i].ref[1] = skl.result.rows[j].ref[1]
                    THEN NaN ELSE Frac(1, 1))

\* identical columns that vary, beside a row dropped for its NaN
C16_Witness ==
    /\ skl.pc = "done"
    /\ IdenticalColumns
    /\ Len(skl.result.rows) = 3
    /\ Cardinality(ValidRows) = 2
    /\ skl.r = Frac(1, 1)
    /\ \E i \in 1..3 : skl.result.rows[i].samp.mean_samp.nan

\* C17: the result of eval_scaling describes one single trial: r, RMSE,
\* the ScalingVector and the comparison table are those of the selected
\* trial index, the total stretch is the sum of the reported vector (within
\* max_stretch), n_obs is the number of reference rows and n_tests the
\* number of trials run.
C17_ResultOfOneTrial ==
    es.pc = "done" =>
        LET i == es.scaling_meta.index + 1
            y == Trial(es.random_tests[i], smp_dat, ref_dat, es.layer_h, es.samp_h)
        IN  /\ i \in 1..es.num_tests
            /\ Len(es.random_tests) = es.num_tests
            /\ es.scaling_meta.scale_coeff = es.random_tests[i]
            /\ es.scaling_meta.r = y.r
            /\ es.scaling_meta.rmse = y.rmse
            /\ es.scaling_result = y.result
            /\ es.scaling_meta.scale_per = SeqSum(es.scaling_meta.scale_coeff)
            /\ Abs(es.scaling_meta.scale_per) <= es.max_stretch
            /\ es.scaling_meta.n_obs = Len(es.ref0.rows)
            /\ es.scaling_meta.n_tests = es.num_tests

\* the second of two different trials is selected
C17_Witness ==
    /\ es.pc = "done"
    /\ es.num_tests = 2
    /\ es.scaling_meta.index = 1
    /\ es.random_tests[1] # es.random_tests[2]
    /\ es.retrieved_skill[1] # es.retrieved_skill[2]
    /\ es.scaling_meta.scale_per # 0

\* the deepest entry of a column of a table
ColMax(t, name) ==
    CHOOSE m \in Range(Col(t, name)) : \A x \in Range(Col(t, name)) : x <= m

\* C18: the number of layers of a run is the least whole number of layer
\* heights that covers min(profile maximum depth, reference maximum depth),
\* it is the same for all trials, and every trial's ScalingVector (and every
\* candidate) has exactly that length.
C18_LayerCount ==
    es.pc \in {"gen", "test", "done"} =>
        LET min_len == Min(ColMax(es.smp0, "rel_height"), ColMax(es.ref0, "height"))
        IN  /\ es.num_sections * es.layer_h >= min_len
            /\ (es.num_sections - 1) * es.layer_h < min_len
            /\ \A t \in 1..Len(es.random_tests) :
                  Len(es.random_tests[t]) = es.num_sections
            /\ es.pc = "test" => Len(es.layer_stretch) = es.num_sections

\* two trials of two layers each, where the reference is the shorter table
\* and its depth is no whole number of layer heights
C18_Witness ==
    /\ es.pc = "done"
    /\ es.num_tests = 2
    /\ es.num_sections = 2
    /\ ColMax(es.ref0, "height") < ColMax(es.smp0, "rel_height")
    /\ ColMax(es.ref0, "height") % es.layer_h # 0
    /\ Len(es.random_tests[1]) = 2 /\ Len(es.random_tests[2]) = 2

\* C19: for a record with force_median F > 0 calc_density returns
\* c0 + c1*ln(F) + c2*ln(F)*l + c3*l rounded to one decimal (the tenth
\* nearest to the sum); with the coefficients of King 2020, F = 2.0 and
\* l = 0.05 this is 341.4.
C19_DensityFormula ==
    (cal.pc = "done" /\ cal.fn = "calc_density") =>
        \A i \in 1..Len(cal.shot_noise) :
            LET rec == cal.shot_noise[i]
                c == cal.coefs
                ln == LnMilli(rec.force_median)
                sum == (c[1] % 10) * 100000 + c[2] * ln * 100
                           + c[3] * ln * rec.l + c[4] * rec.l * 1000
                tenths == cal.result[i].v - (c[1] \div 10)
            IN  rec.force_median > 0 =>
                    /\ cal.result[i].kind = "fin"
                    /\ 2 * Abs(1000000 * tenths - sum) <= 1000000
                    /\ (c = KING_COEFF /\ rec.force_median = 200 /\ rec.l = 5) =>
                          cal.result[i].v = 3414

\* the record of the worked example, after a record with another result
C19_Witness ==
    /\ cal.pc = "done"
    /\ cal.fn = "calc_density"
    /\ cal.coefs = KING_COEFF
    /\ Len(cal.shot_noise) = 2
    /\ cal.shot_noise[2] = [force_median |-> 200, l |-> 5]
    /\ cal.result[2] = Fin(3414)
    /\ cal.result[1].kind = "fin" /\ cal.result[1].v # 3414

\* C20: a calibration formula given a non-positive force_median, or a
\* non-positive l where the logarithm of l is taken, gives no finite
\* density/SSA for that record (an error or a non-finite marker instead).
C20_NonPositiveNotCoerced ==
    cal.pc = "done" =>
        \A i \in 1..Len(cal.shot_noise) :
            (\/ cal.shot_noise[i].force_median <= 0
             \/ cal.fn # "calc_density" /\ cal.shot_noise[i].l <= 0) =>
                cal.result[i].kind \in {"inf", "ninf", "nan"}

----------------------------------------------------------------------------
\* the position (1-based) of the column called name in the reference table
\* handed to the call
RefPos(name) == CHOOSE i \in ColsNamed(es.ref0, name) : TRUE

\* of density and ssa, the name whose column stands first in that table
FirstByColumnOrder ==
    IF RefPos("density") < RefPos("ssa") THEN "density" ELSE "ssa"

\* C21: when the reference table holds both a density and an ssa column,
\* the reference type chosen by eval_scaling is the one whose column comes
\* first in the table's column order (ssa placed before density makes ssa
\* the chosen type).
C21_FirstColumnWins ==
    (RefHad("density") /\ RefHad("ssa") /\ es.pc \in {"gen", "test", "done", "ambiguous"})
        => es.ref_type = FirstByColumnOrder

----------------------------------------------------------------------------
\* the profile table was built with both a density and an ssa column
\* (whatever the columns are called by now)
HoldsBoth(t) == \A r \in 1..Len(t.rows) : t.rows[r] = SmpRows[r]

\* the values of the quantity called name in a profile table built from
\* SmpRows
Quantity(t, name) ==
    LET pos == CHOOSE i \in 1..Len(SmpAllCols) : SmpAllCols[i] = name
    IN  AsList([r \in 1..Len(t.rows) |-> SmpRows[r][pos]])

\* line 226 is about to read smp_dat.smp_val for the trials
TrialsRead == es.pc = "gen" /\ Len(es.random_tests) = es.num_tests

\* C22: after any sequence of eval_scaling calls that reuse one profile
\* table holding both a density and an ssa column, the profile table has
\* exactly one column called smp_val when the trials read it, and that
\* column holds the quantity of the reference type of the current call.
C22_OneCanonicalColumn ==
    (TrialsRead /\ HoldsBoth(smp_dat)) =>
        /\ Cardinality(ColsNamed(smp_dat, "smp_val")) = 1
        /\ Col(smp_dat, "smp_val") = Quantity(smp_dat, es.ref_type)

----------------------------------------------------------------------------
\* C23: a trial whose r is NaN is never selected while at least one trial
\* has a defined r; when every trial has NaN r, the selected trial is the
\* one with the smallest defined RMSE.
C23_NaNNeverBeatsDefined ==
    rk.pc = "ranked" =>
        LET sel == rk.min_scaling_idx[1] + 1
            k == rk.retrieved_skill
            trials == 1..Len(k)
        IN  /\ (\E t \in trials : ~k[t].r.nan) => ~k[sel].r.nan
            /\ ((\A t \in trials : k[t].r.nan) /\ (\E t \in trials : ~k[t].rmse.nan)) =>
                  /\ ~k[sel].rmse.nan
                  /\ \A t \in trials : ~k[t].rmse.nan => ~Less(k[t].rmse, k[sel].rmse)

\* the first trial has no r but the smallest RMSE, the second a negative r
\* and a larger RMSE, the third neither r nor RMSE: the second is selected
C23_Witness ==
    /\ rk.pc = "ranked"
    /\ Len(rk.retrieved_skill) = 3
    /\ rk.retrieved_skill[1] = [r |-> NaN, rmse |-> Frac(1, 2)]
    /\ rk.retrieved_skill[2] = [r |-> Frac(0 - 1, 4), rmse |-> Frac(2, 1)]
    /\ rk.retrieved_skill[3] = [r |-> NaN, rmse |-> NaN]
    /\ rk.min_scaling_idx = <<1>>

----------------------------------------------------------------------------
\* C24: the reported n_comp equals the number of rows of the returned
\* comparison table of the winning trial, never exceeds n_obs, and equals the
\* number of rows calc_skill used for the reported r and RMSE of that trial
\* (rows with NaN statistics and rows of excluded grain types not counted).
C24_CompCountIsRowsUsed ==
    es.pc = "done" =>
        /\ es.scaling_meta.n_comp = Len(es.scaling_result.rows)
        /\ es.scaling_meta.n_comp <= es.scaling_meta.n_obs
        /\ es.scaling_meta.n_comp = es.used[es.scaling_meta.index + 1]

====
